---- MODULE Spec2Model ----
(***************************************************************************)
(* A model of the Glassbox calculation engine (python/glassbox/engine.py): *)
(* the reference map, the dependency scheduler (hard and lag edges,        *)
(* SHIFT-cycle clusters, Kahn's sort), the array and the period-by-period  *)
(* formula evaluators, and the engine operations override_input and run.   *)
(*                                                                         *)
(* Formulas.  A calculation R<i> carries a formula of the family           *)
(*     c + X... + R<j>... + SHIFT(R<k>, 1)...                              *)
(* which is kept as the record                                             *)
(*     [hard |-> {j...}, soft |-> {k...}, refs |-> {X...}, c |-> c]        *)
(* hard: the R-references outside any SHIFT argument, soft: those inside   *)
(* one, refs: the input references (C1.1, V9, ...), c: the literal.        *)
(* The formula with no term at all is the empty string.                    *)
(*                                                                         *)
(* Arrays are sequences of length NumPeriods; period t of the code is      *)
(* index t + 1.  A dict of the code is a function whose DOMAIN is the set  *)
(* of its keys.  Cluster ids are the code's ids plus one.                  *)
(***************************************************************************)
EXTENDS Integers, Sequences, FiniteSets, TLC

\* ------------------------------------------------------------------ bounds
\* P, the number of periods of the timeline.
NumPeriods == 3
\* The largest number of terms (references and literals) of a generated document.
MaxTerms == 3
\* The number of run() calls made on one engine instance.
MaxRuns == 2
\* The number of override_input calls made on one engine instance.
MaxOverrides == 1
\* The largest number of terms of a document of the override runs.
MaxOverrideTerms == 2

Periods == 1..NumPeriods

\* ------------------------------------------------------------------ arrays
Zeros == [t \in Periods |-> 0]

Full(v) == [t \in Periods |-> v]

RECURSIVE SumFun(_)
SumFun(f) ==
    IF DOMAIN f = {} THEN 0
    ELSE LET x == CHOOSE y \in DOMAIN f : TRUE
         IN  f[x] + SumFun([y \in DOMAIN f \ {x} |-> f[y]])

\* arr[i] if i < len(arr) else 0.0, as the per-period evaluators read an array.
At(arr, t) == IF t \in DOMAIN arr THEN arr[t] ELSE 0

\* _shift: zeros(len(arr)), and result[n:] = arr[:len - n] when n < len.
_shift(arr, n) == [t \in DOMAIN arr |-> IF t - n >= 1 THEN arr[t - n] ELSE 0]

\* ------------------------------------------------------------------ references
RRef(i) == <<"R", i>>
C1Group == <<"C1", 0>>
C1Item(k) == <<"C1", k>>
V9 == <<"V9", 0>>
\* A dangling operator at the end of a formula ("... +"): compile raises SyntaxError.
Dangling == <<"+", 0>>

\* ------------------------------------------------------------------ documents
IsEmptyFormula(calc) ==
    calc.hard = {} /\ calc.soft = {} /\ calc.refs = {} /\ calc.c = 0

\* A document from a set of terms <<kind, i, x>> over the calculations 1..n.
DocOf(n, T) ==
    [i \in 1..n |->
        [hard |-> {j \in 1..n : <<"h", i, <<"R", j>>>> \in T},
         soft |-> {j \in 1..n : <<"s", i, <<"R", j>>>> \in T},
         refs |-> {r \in {C1Item(1), C1Group, V9, Dangling} : <<"x", i, r>> \in T},
         c    |-> IF <<"c", i, <<"R", 0>>>> \in T THEN 1 ELSE 0]]

RECURSIVE SubsetsUpTo(_, _)
SubsetsUpTo(S, k) ==
    IF k = 0 THEN {{}}
    ELSE LET prev == SubsetsUpTo(S, k - 1)
         IN  prev \cup {s \cup {e} : s \in prev, e \in S}

FamilyIds == {1, 2, 3}

FamilyTerms ==
    {<<"h", i, <<"R", j>>>> : i \in FamilyIds, j \in FamilyIds}
    \cup {<<"s", i, <<"R", j>>>> : i \in FamilyIds, j \in FamilyIds}
    \cup {<<"c", i, <<"R", 0>>>> : i \in FamilyIds}

\* Every document of three calculations with at most MaxTerms terms.
FamilyDocs == {DocOf(Cardinality(FamilyIds), T) : T \in SubsetsUpTo(FamilyTerms, MaxTerms)}

OverrideIds == {1, 2}

\* The input references the formulas read, and those given to override_input.
DocRefs == {C1Item(1), C1Group, V9}
OverrideRefs == {C1Item(1), V9}

OverrideTerms ==
    {<<"h", i, <<"R", j>>>> : i \in OverrideIds, j \in OverrideIds}
    \cup {<<"s", i, <<"R", j>>>> : i \in OverrideIds, j \in OverrideIds}
    \cup {<<"c", i, <<"R", 0>>>> : i \in OverrideIds}
    \cup {<<"x", i, r>> : i \in OverrideIds, r \in DocRefs}
    \cup {<<"x", 1, Dangling>>}

\* Every document of two calculations, input references among the terms.
OverrideDocs ==
    {DocOf(Cardinality(OverrideIds), T) : T \in SubsetsUpTo(OverrideTerms, MaxOverrideTerms)}

\* The inputs document of the override runs: the constant group holds C1.1 = 5.
OverrideItems == (1 :> 5)

\* The values given to override_input: a scalar (broadcast) and a list of
\* P - 1 values.
OverrideValues ==
    {Full(7), [t \in 1..(NumPeriods - 1) |-> 7 + t]}

\* R1 = R2 + 1, R2 = R1 + 1: a hard cycle.
HardCycleDoc ==
    <<[hard |-> {2}, soft |-> {}, refs |-> {}, c |-> 1],
      [hard |-> {1}, soft |-> {}, refs |-> {}, c |-> 1]>>

\* R1 = R2 + 1, R2 = SHIFT(R1, 1): the soft cycle of the end-to-end checks.
SoftCycleDoc ==
    <<[hard |-> {2}, soft |-> {}, refs |-> {}, c |-> 1],
      [hard |-> {}, soft |-> {1}, refs |-> {}, c |-> 0]>>

\* R1 = R2, R2 = SHIFT(R3, 1), R3 = SHIFT(R2, 1) + 1: a loop closed by two lags.
TwoLagLoopDoc ==
    <<[hard |-> {2}, soft |-> {}, refs |-> {}, c |-> 0],
      [hard |-> {}, soft |-> {3}, refs |-> {}, c |-> 0],
      [hard |-> {}, soft |-> {2}, refs |-> {}, c |-> 1]>>

\* R1 = SHIFT(R1, 1) + R3, R2 = SHIFT(R2, 1) + R3, R3 = SHIFT(R4, 1),
\* R4 = R1 + R2 + 1: the cycle set of R3 meets those of R1 and of R2.
OverlapDoc ==
    <<[hard |-> {3}, soft |-> {1}, refs |-> {}, c |-> 0],
      [hard |-> {3}, soft |-> {2}, refs |-> {}, c |-> 0],
      [hard |-> {}, soft |-> {4}, refs |-> {}, c |-> 0],
      [hard |-> {1, 2}, soft |-> {}, refs |-> {}, c |-> 1]>>

\* R1 = R2 + 1, R2 = SHIFT(R1, 1) + SHIFT(R3, 1), R3 = SHIFT(R2, 1): a soft cycle
\* whose member R2 is also in a loop closed by two lags.
ClusterInLagLoopDoc ==
    <<[hard |-> {2}, soft |-> {}, refs |-> {}, c |-> 1],
      [hard |-> {}, soft |-> {1, 3}, refs |-> {}, c |-> 0],
      [hard |-> {}, soft |-> {2}, refs |-> {}, c |-> 0]>>

CatalogDocs == {HardCycleDoc, SoftCycleDoc, TwoLagLoopDoc, OverlapDoc, ClusterInLagLoopDoc}

\* ------------------------------------------------------------------ dependency graph
\* _extract_deps: the R-references outside SHIFT/PREVSUM/PREVVAL.
_extract_deps(calc) == calc.hard

\* _extract_shift_targets: the R-references inside SHIFT/PREVSUM/PREVVAL.
_extract_shift_targets(calc) == calc.soft

\* _evaluate_all, the graph of hard dependencies filtered to existing nodes.
HardGraph(cs) == [n \in DOMAIN cs |-> _extract_deps(cs[n]) \cap DOMAIN cs]

RECURSIVE Closure(_, _)
Closure(g, visited) ==
    LET more == (UNION {g[v] : v \in visited}) \cap DOMAIN g
    IN  IF more \subseteq visited THEN visited ELSE Closure(g, visited \cup more)

\* A search that does not take a node to reach itself.
ReachableByEdges(g, start, target) ==
    target \in UNION {g[v] : v \in Closure(g, {start})}

\* is_reachable of _detect_shift_cycles: breadth first over the hard graph.
is_reachable(g, start, target) ==
    \/ start = target
    \/ target \in UNION {g[v] : v \in Closure(g, {start})}

\* The cycle set seeded by the lag edge node_id --SHIFT--> target.
CycleNodes(g, node_id, target) ==
    {node_id, target}
    \cup {n \in DOMAIN g : is_reachable(g, target, n) /\ is_reachable(g, n, node_id)}

\* The shift targets of a calculation that close a soft cycle.
CyclicTargets(cs, g, node_id) ==
    {t \in _extract_shift_targets(cs[node_id]) :
        t \in DOMAIN g /\ is_reachable(g, t, node_id)}

Perms(S) ==
    {f \in [1..Cardinality(S) -> S] : \A a, b \in DOMAIN f : a # b => f[a] # f[b]}

\* all_cycle_sets: the calculations in document order; the targets of one
\* calculation come out of a Python set of strings, in any order.
RECURSIVE AllCycleSets(_, _, _)
AllCycleSets(cs, g, n) ==
    IF n > Len(cs) THEN {<<>>}
    ELSE LET here == {[k \in DOMAIN p |-> CycleNodes(g, n, p[k])] :
                        p \in Perms(CyclicTargets(cs, g, n))}
         IN  {a \o b : a \in here, b \in AllCycleSets(cs, g, n + 1)}

\* "Merge overlapping sets": each set joins the first merged set it meets.
RECURSIVE MergeSets(_, _)
MergeSets(sets, merged) ==
    IF sets = <<>> THEN merged
    ELSE LET ns == Head(sets)
             hit == {i \in DOMAIN merged : ns \cap merged[i] # {}}
         IN  IF hit # {}
             THEN LET first == CHOOSE i \in hit : \A k \in hit : i <= k
                  IN  MergeSets(Tail(sets), [merged EXCEPT ![first] = @ \cup ns])
             ELSE MergeSets(Tail(sets), Append(merged, ns))

\* node_to_cluster: clusters are numbered in order, a later one overwrites.
NodeToCluster(merged) ==
    LET inAny == UNION {merged[i] : i \in DOMAIN merged}
    IN  [n \in inAny |->
            CHOOSE i \in DOMAIN merged :
                n \in merged[i] /\ \A k \in DOMAIN merged : n \in merged[k] => k <= i]

SameCluster(ntc, a, b) ==
    a \in DOMAIN ntc /\ b \in DOMAIN ntc /\ ntc[a] = ntc[b]

\* "Add non-cyclical SHIFT deps to graph for ordering".
UpgradeSoft(cs, g, ntc) ==
    [n \in DOMAIN g |->
        g[n] \cup {t \in _extract_shift_targets(cs[n]) :
                     t \in DOMAIN g /\ t # n /\ ~SameCluster(ntc, n, t)}]

\* "Augment: non-cluster nodes depending on cluster members depend on ALL members".
Augment(g, ntc, merged) ==
    [n \in DOMAIN g |->
        IF n \in DOMAIN ntc THEN g[n]
        ELSE g[n] \cup UNION {merged[ntc[d]] : d \in g[n] \cap DOMAIN ntc}]

\* The graph handed to the topological sort.
SchedGraph(cs, merged) ==
    LET ntc == NodeToCluster(merged)
    IN  Augment(UpgradeSoft(cs, HardGraph(cs), ntc), ntc, merged)

\* An ascending sequence of the members of a set of integers.
RECURSIVE SortedSeq(_)
SortedSeq(S) ==
    IF S = {} THEN <<>>
    ELSE LET m == CHOOSE x \in S : \A y \in S : x <= y
         IN  <<m>> \o SortedSeq(S \ {m})

RECURSIVE KahnLoop(_, _, _, _)
KahnLoop(g, in_degree, queue, sorted_list) ==
    IF queue = <<>> THEN sorted_list
    ELSE LET node == Head(queue)
             deg  == [n \in DOMAIN g |->
                        IF node \in g[n] THEN in_degree[n] - 1 ELSE in_degree[n]]
             woke == SortedSeq({n \in DOMAIN g : node \in g[n] /\ deg[n] = 0})
         IN  KahnLoop(g, deg, Tail(queue) \o woke, Append(sorted_list, node))

\* The sorted_list of _topological_sort when its queue runs empty.
KahnSorted(g) ==
    LET in_degree == [n \in DOMAIN g |-> Cardinality(g[n] \cap DOMAIN g)]
        queue     == SortedSeq({n \in DOMAIN g : in_degree[n] = 0})
    IN  KahnLoop(g, in_degree, queue, <<>>)

\* remaining: the nodes Kahn's algorithm leaves over.
Remaining(g) == DOMAIN g \ {KahnSorted(g)[k] : k \in DOMAIN KahnSorted(g)}

\* A scheduler that puts the remaining nodes first.
RemainingFirst(g) == SortedSeq(Remaining(g)) \o KahnSorted(g)

\* _topological_sort: Kahn's algorithm, the remaining nodes appended in graph order.
_topological_sort(g) == KahnSorted(g) \o SortedSeq(Remaining(g))

\* ------------------------------------------------------------------ evaluators
\* An R-reference absent from the context reads as the zeros array.
RVal(ctx, j) == IF RRef(j) \in DOMAIN ctx THEN ctx[RRef(j)] ELSE Zeros

\* A formula that does not compile, or with a name absent from the context: the
\* name stays in the expression, eval raises and the value is lost.
Unresolved(calc, ctx) == calc.refs \ DOMAIN ctx # {}

\* The arrays a formula without array functions hands to numpy.
Operands(calc, ctx) ==
    {ctx[r] : r \in calc.refs} \cup {RVal(ctx, j) : j \in calc.hard}

\* _try_numpy_eval succeeds: every name resolves and the arrays have one length.
\* A formula with an array function keeps its __ARRAYFN placeholder, which no
\* reference pattern matches, so eval raises NameError and the fast path gives up.
NumpyLen(calc, ctx) ==
    IF Unresolved(calc, ctx) \/ calc.soft # {} THEN 0
    ELSE IF Operands(calc, ctx) = {} THEN NumPeriods
    ELSE IF Cardinality({Len(a) : a \in Operands(calc, ctx)}) = 1
         THEN Len(CHOOSE a \in Operands(calc, ctx) : TRUE)
    ELSE 0

\* The value of the expression at period t, an array read past its end giving 0.
ValueAt(calc, ctx, t) ==
    calc.c
    + SumFun([r \in calc.refs |-> At(ctx[r], t)])
    + SumFun([j \in calc.hard |-> At(RVal(ctx, j), t)])
    + SumFun([j \in calc.soft |-> At(_shift(RVal(ctx, j), 1), t)])

\* evaluate_formula: the SHIFT pre-pass over whole arrays, then the fast path
\* and, when it gives up, the per-period path, where _safe_eval turns every
\* exception into 0.0.
evaluate_formula(calc, ctx) ==
    IF IsEmptyFormula(calc) \/ Unresolved(calc, ctx) THEN Zeros
    ELSE IF NumpyLen(calc, ctx) > 0
         THEN [t \in 1..NumpyLen(calc, ctx) |-> ValueAt(calc, ctx, t)]
    ELSE [t \in Periods |-> ValueAt(calc, ctx, t)]

\* evaluate_formula raises: compile and eval run inside the try blocks of
\* _try_numpy_eval and _safe_eval, so no exception of a formula reaches the caller.
FormulaRaises(calc, ctx) == FALSE

\* _eval_simple_at_period of a single R-reference.
_eval_simple_at_period(ctx, j, t) == IF t < 1 THEN 0 ELSE At(RVal(ctx, j), t)

\* A period evaluator whose SHIFT reads the period itself.
ShiftWithoutLag(calc, ctx, t) ==
    IF IsEmptyFormula(calc) \/ Unresolved(calc, ctx) THEN 0
    ELSE calc.c
         + SumFun([r \in calc.refs |-> At(ctx[r], t)])
         + SumFun([j \in calc.hard \cup calc.soft |-> _eval_simple_at_period(ctx, j, t)])

\* _eval_formula_at_period: SHIFT(X, 1) reads X at period - 1 (0.0 at period 0),
\* everything else reads the context at the period itself.
_eval_formula_at_period(calc, ctx, t) ==
    IF IsEmptyFormula(calc) \/ Unresolved(calc, ctx) THEN 0
    ELSE calc.c
         + SumFun([r \in calc.refs |-> At(ctx[r], t)])
         + SumFun([j \in calc.hard |-> _eval_simple_at_period(ctx, j, t)])
         + SumFun([j \in calc.soft |->
                     IF t - 1 >= 1 THEN _eval_simple_at_period(ctx, j, t - 1) ELSE 0])

\* ------------------------------------------------------------------ reference map
\* build_input_group_refs for one constant group: the subtotal C1 and an item
\* reference C1.<id> per input, each the raw value at every period.
\* A group with no input is not active and gets no reference.
build_input_group_refs(inps) ==
    IF DOMAIN inps = {} THEN <<>>
    ELSE (C1Group :> Full(SumFun(inps)))
         @@ [r \in {C1Item(k) : k \in DOMAIN inps} |-> Full(inps[r[2]])]

\* dict.update: the entries of new replace those of old.
Update(old, new) == new @@ old

\* ------------------------------------------------------------------ state
VARIABLES
    calcs,              \* the calculations document
    items,              \* the inputs document: the items of the constant group
    context,            \* engine.context
    results,            \* engine.results
    pc,                 \* "idle", "built", "eval", "cluster"
    sched,              \* the schedule of the current _evaluate_all
    node_idx,           \* the position of the evaluation loop in sorted_nodes
    evaluated_clusters, \* the clusters evaluated in this run
    cur,                \* the cluster under evaluation: its id, period and member
    log,                \* the arrays written in this run, in order
    returns,            \* what each finished run() of this engine returned
    overridden,         \* the references given to override_input on this engine
    engines,            \* the engines constructed so far
    base,               \* what the first run of the base engine returned
    errors,             \* engine.errors: the nodes that have an entry
    fn                  \* a function of the engine called on its own: arguments and result

vars == <<calcs, items, context, results, pc, sched, node_idx, evaluated_clusters,
          cur, log, returns, overridden, engines, base, errors, fn>>

NoSched == [sorted_nodes |-> <<>>, graph |-> <<>>, node_to_cluster |-> <<>>, clusters |-> <<>>]
NoCur == [cid |-> 0, i |-> 0, k |-> 0]
NoBase == <<>>
NoFn == [op |-> "none"]

\* GlassboxEngine.__init__: empty context, results and errors.
Fresh ==
    /\ context = <<>>
    /\ results = <<>>
    /\ pc = "idle"
    /\ sched = NoSched
    /\ node_idx = 0
    /\ evaluated_clusters = {}
    /\ cur = NoCur
    /\ log = <<>>
    /\ returns = <<>>
    /\ overridden = <<>>
    /\ errors = {}

Init ==
    /\ calcs \in FamilyDocs \cup CatalogDocs
    /\ items = <<>>
    /\ engines = 1
    /\ base = NoBase
    /\ fn = NoFn
    /\ Fresh

\* ------------------------------------------------------------------ schedule
\* cluster['internal_order']: the members sorted by their position in sorted_nodes.
InternalOrder(s, cid) ==
    SelectSeq(s.sorted_nodes, LAMBDA n : n \in s.clusters[cid])

\* cluster_last_pos: the last position of a node that node_to_cluster maps to cid.
IsTrigger(s, idx) ==
    LET n == s.sorted_nodes[idx]
    IN  /\ n \in DOMAIN s.node_to_cluster
        /\ \A k \in DOMAIN s.sorted_nodes :
              (k > idx /\ s.sorted_nodes[k] \in DOMAIN s.node_to_cluster)
                  => s.node_to_cluster[s.sorted_nodes[k]] # s.node_to_cluster[n]

\* _evaluate_all up to the evaluation loop.
Schedule(merged) ==
    LET g == SchedGraph(calcs, merged)
    IN  [sorted_nodes    |-> _topological_sort(g),
         graph           |-> g,
         node_to_cluster |-> NodeToCluster(merged),
         clusters        |-> merged]

BeginEvaluateAll ==
    \E sets \in AllCycleSets(calcs, HardGraph(calcs), 1) :
        /\ sched' = Schedule(MergeSets(sets, <<>>))
        /\ node_idx' = 1
        /\ evaluated_clusters' = {}
        /\ cur' = NoCur
        /\ log' = <<>>
        /\ pc' = "eval"

\* _build_reference_map: context.update(group_refs).
BuildMap(ctx) == Update(ctx, build_input_group_refs(items))

\* ------------------------------------------------------------------ operations
\* run(): _build_reference_map(), then _evaluate_all().
Run ==
    /\ pc = "idle"
    /\ Len(returns) < MaxRuns
    /\ context' = BuildMap(context)
    /\ BeginEvaluateAll
    /\ UNCHANGED <<calcs, items, results, returns, overridden, engines, base, errors, fn>>

AtNode == pc = "eval" /\ node_idx <= Len(sched.sorted_nodes)
Node == sched.sorted_nodes[node_idx]

\* A cluster member that is not its cluster's trigger, or whose cluster is done.
SkipMember ==
    /\ AtNode
    /\ Node \in DOMAIN sched.node_to_cluster
    /\ ~(IsTrigger(sched, node_idx) /\ sched.node_to_cluster[Node] \notin evaluated_clusters)
    /\ node_idx' = node_idx + 1
    /\ UNCHANGED <<calcs, items, context, results, pc, sched, evaluated_clusters, cur,
                   log, returns, overridden, engines, base, errors, fn>>

\* _evaluate_cluster_period_by_period, the zero arrays bound in the context.
ClusterBegin ==
    /\ AtNode
    /\ Node \in DOMAIN sched.node_to_cluster
    /\ IsTrigger(sched, node_idx)
    /\ sched.node_to_cluster[Node] \notin evaluated_clusters
    /\ LET cid == sched.node_to_cluster[Node]
       IN  /\ evaluated_clusters' = evaluated_clusters \cup {cid}
           /\ context' = Update(context, [r \in {RRef(n) : n \in sched.clusters[cid]} |-> Zeros])
           /\ cur' = [cid |-> cid, i |-> 1, k |-> 1]
    /\ pc' = "cluster"
    /\ UNCHANGED <<calcs, items, results, sched, node_idx, log, returns, overridden,
                   engines, base, errors, fn>>

\* One member at one period: results[node_id][i] = val, in place.
ClusterStep ==
    /\ pc = "cluster"
    /\ cur.i <= NumPeriods
    /\ LET order == InternalOrder(sched, cur.cid)
           n     == order[cur.k]
           val   == _eval_formula_at_period(calcs[n], context, cur.i)
       IN  /\ context' = [context EXCEPT ![RRef(n)][cur.i] = val]
           /\ cur' = IF cur.k < Len(order)
                     THEN [cur EXCEPT !.k = @ + 1]
                     ELSE [cur EXCEPT !.i = @ + 1, !.k = 1]
    /\ UNCHANGED <<calcs, items, results, pc, sched, node_idx, evaluated_clusters, log,
                   returns, overridden, engines, base, errors, fn>>

\* The cluster's arrays published in engine.results.
ClusterEnd ==
    /\ pc = "cluster"
    /\ cur.i > NumPeriods
    /\ LET order == InternalOrder(sched, cur.cid)
       IN  /\ results' = Update(results, [r \in {RRef(n) : n \in sched.clusters[cur.cid]} |-> context[r]])
           /\ log' = log \o [k \in DOMAIN order |-> [n |-> order[k], cid |-> cur.cid]]
    /\ cur' = NoCur
    /\ pc' = "eval"
    /\ node_idx' = node_idx + 1
    /\ UNCHANGED <<calcs, items, context, sched, evaluated_clusters, returns, overridden,
                   engines, base, errors, fn>>

\* "Regular calculation".
EvalCalc ==
    /\ AtNode
    /\ Node \notin DOMAIN sched.node_to_cluster
    /\ LET raised == FormulaRaises(calcs[Node], context)
           values == IF raised THEN Zeros ELSE evaluate_formula(calcs[Node], context)
       IN  /\ results' = Update(results, RRef(Node) :> values)
           /\ context' = Update(context, RRef(Node) :> values)
           /\ errors' = IF raised THEN errors \cup {Node} ELSE errors
    /\ log' = Append(log, [n |-> Node, cid |-> 0])
    /\ node_idx' = node_idx + 1
    /\ UNCHANGED <<calcs, items, pc, sched, evaluated_clusters, cur, returns, overridden,
                   engines, base, fn>>

\* run() returns engine.results.
Return ==
    /\ pc = "eval"
    /\ node_idx > Len(sched.sorted_nodes)
    /\ returns' = Append(returns, results)
    /\ pc' = "idle"
    /\ UNCHANGED <<calcs, items, context, results, sched, node_idx, evaluated_clusters,
                   cur, log, overridden, engines, base, errors, fn>>

\* An override of an item that also rebinds the subtotal of its group.
OverrideWithGroup(ref, value) ==
    /\ pc \in {"idle", "built"}
    /\ Len(returns) < MaxRuns
    /\ Cardinality(DOMAIN overridden) < MaxOverrides
    /\ ref \notin DOMAIN overridden
    /\ context' = Update(context, (ref :> value) @@ (C1Group :> value))
    /\ overridden' = Update(overridden, ref :> [v |-> value, at |-> pc, runs |-> Len(returns)])
    /\ UNCHANGED <<calcs, items, results, pc, sched, node_idx, evaluated_clusters, cur,
                   log, returns, engines, base, errors, fn>>

\* override_input(ref, value): context[ref] = the array of value.
OverrideInput(ref, value) ==
    /\ pc \in {"idle", "built"}
    /\ Len(returns) < MaxRuns
    /\ Cardinality(DOMAIN overridden) < MaxOverrides
    /\ ref \notin DOMAIN overridden
    /\ context' = Update(context, ref :> value)
    /\ overridden' = Update(overridden, ref :> [v |-> value, at |-> pc, runs |-> Len(returns)])
    /\ UNCHANGED <<calcs, items, results, pc, sched, node_idx, evaluated_clusters, cur,
                   log, returns, engines, base, errors, fn>>

Override == \E ref \in OverrideRefs : \E value \in OverrideValues : OverrideInput(ref, value)

\* ScenarioManager._run_single: engine._build_reference_map() on a fresh engine.
BuildReferenceMap ==
    /\ pc = "idle"
    /\ returns = <<>>
    /\ context' = BuildMap(context)
    /\ pc' = "built"
    /\ UNCHANGED <<calcs, items, results, sched, node_idx, evaluated_clusters, cur, log,
                   returns, overridden, engines, base, errors, fn>>

\* ScenarioManager._run_single: engine._evaluate_all() after the overrides.
EvaluateAll ==
    /\ pc = "built"
    /\ BeginEvaluateAll
    /\ UNCHANGED <<calcs, items, context, results, returns, overridden, engines, base, errors, fn>>

\* ScenarioManager._create_engine: after the base case, a fresh engine on the
\* same documents.
NewEngine ==
    /\ pc = "idle"
    /\ engines = 1
    /\ returns # <<>>
    /\ overridden = <<>>
    /\ base' = returns[1]
    /\ engines' = engines + 1
    /\ context' = <<>>
    /\ results' = <<>>
    /\ pc' = "idle"
    /\ sched' = NoSched
    /\ node_idx' = 0
    /\ evaluated_clusters' = {}
    /\ cur' = NoCur
    /\ log' = <<>>
    /\ returns' = <<>>
    /\ overridden' = <<>>
    /\ errors' = {}
    /\ UNCHANGED <<calcs, items, fn>>

Next ==
    \/ Run
    \/ SkipMember
    \/ ClusterBegin
    \/ ClusterStep
    \/ ClusterEnd
    \/ EvalCalc
    \/ Return

Spec == Init /\ [][Next]_vars

\* The engine under override_input and the scenario manager's runs.
InitOverride ==
    /\ calcs \in OverrideDocs
    /\ items = OverrideItems
    /\ engines = 1
    /\ base = NoBase
    /\ fn = NoFn
    /\ Fresh

NextOverride ==
    \/ Next
    \/ Override
    \/ BuildReferenceMap
    \/ EvaluateAll
    \/ NewEngine

SpecOverride == InitOverride /\ [][NextOverride]_vars

\* ------------------------------------------------------------------ properties
\* A run() has returned and no other has begun.
Finished == pc = "idle" /\ returns # <<>>

\* The first run() of an engine on which override_input was never called.
FirstPlainRun == Finished /\ Len(returns) = 1 /\ overridden = <<>>

Ids == DOMAIN calcs

\* a and b are members of one cluster.
InOneCluster(a, b) ==
    \E cid \in DOMAIN sched.clusters : a \in sched.clusters[cid] /\ b \in sched.clusters[cid]

\* The array of j was written, by another evaluation, before i was evaluated.
WrittenBefore(j, i) ==
    \E a \in DOMAIN log :
        /\ log[a].n = j
        /\ \A b \in DOMAIN log :
              log[b].n = i => (a < b /\ (log[a].cid = 0 \/ log[a].cid # log[b].cid))

\* No calculation hard-depends on itself, directly or through others.
HardAcyclic(cs) ==
    \A n \in DOMAIN cs :
        n \notin UNION {HardGraph(cs)[v] : v \in Closure(HardGraph(cs), {n})}

\* C1 (as claimed, on the documents whose hard graph is acyclic): after run(),
\* every hard dependency R<j> of a formula node R<i> was written strictly before
\* R<i> was evaluated, unless both belong to the same cluster.
C1_HardDepsWrittenFirst ==
    (Finished /\ HardAcyclic(calcs)) =>
        \A i \in Ids : \A j \in HardGraph(calcs)[i] :
            InOneCluster(i, j) \/ WrittenBefore(j, i)

\* R<i> = SHIFT(R<j>, 1) exactly, and R<j> hard-depends on R<i>, directly or not.
PureShiftInCycle(i, j) ==
    /\ calcs[i] = [hard |-> {}, soft |-> {j}, refs |-> {}, c |-> 0]
    /\ j \in Ids
    /\ i \in UNION {HardGraph(calcs)[v] : v \in Closure(HardGraph(calcs), {j})}

C3_SchedGraphAcyclic ==
    (pc = "eval" /\ HardAcyclic(calcs)) => Remaining(sched.graph) = {}

\* C4 (as claimed): with an acyclic hard graph, the target R<b> of a lag reference
\* of R<a> outside a common cluster is written before R<a> is evaluated.
C4_LagTargetsWrittenFirst ==
    (Finished /\ HardAcyclic(calcs)) =>
        \A a \in Ids : \A b \in _extract_shift_targets(calcs[a]) \cap Ids :
            InOneCluster(a, b) \/ WrittenBefore(b, a)

\* The number of times the array of n was written in this run.
Writes(n) == Cardinality({a \in DOMAIN log : log[a].n = n})

\* C5 (as claimed): in one run() the array of every calculation is written by
\* exactly one evaluation: once for a node outside clusters, by one evaluation of
\* its cluster for a member.
C5_WrittenOnce ==
    Finished => \A n \in Ids : Writes(n) = 1

\* The nodes of this run that Kahn's algorithm left over.
Residual == Remaining(sched.graph)

\* The residual nodes come after all the sorted ones.
ResidualLast ==
    \A a \in DOMAIN sched.sorted_nodes : \A b \in DOMAIN sched.sorted_nodes :
        (a < b /\ sched.sorted_nodes[a] \in Residual) => sched.sorted_nodes[b] \in Residual

\* C6 (as claimed): with a hard cycle run() returns, the residual nodes come after all the
\* sorted nodes, and their result arrays are all zero.
C6_ResidualZero ==
    (Finished /\ ~HardAcyclic(calcs)) =>
        /\ ResidualLast
        /\ \A n \in Residual : results[RRef(n)] = Zeros

\* The nodes written, by another evaluation, before the first evaluation of n.
Earlier(n) == {j \in Ids : WrittenBefore(j, n)}

\* The formula of n over the arrays of the nodes written before it, the others 0.
OverEarlier(n) ==
    [t \in Periods |->
        calcs[n].c
        + SumFun([j \in calcs[n].hard \cap Earlier(n) |-> results[RRef(j)][t]])
        + SumFun([j \in calcs[n].soft \cap Earlier(n) |->
                    IF t = 1 THEN 0 ELSE results[RRef(j)][t - 1]])]

\* C6 (amended): with a hard cycle run() returns a result for every node, the
\* residual nodes come after all the sorted nodes, and each is evaluated like any other node against the context
\* of that moment: on a fresh engine a residual node outside clusters gets its
\* formula over the nodes written before it, the others reading as 0, so
\* R1 = R2 + 1, R2 = R1 + 1 give R1 = 1 and R2 = 2 at every period, not zeros.
C6_ResidualEvaluated ==
    (Finished /\ ~HardAcyclic(calcs)) =>
        /\ ResidualLast
        /\ Ids \subseteq {r[2] : r \in DOMAIN results}
        /\ FirstPlainRun =>
              /\ \A n \in Residual \ DOMAIN sched.node_to_cluster :
                    results[RRef(n)] = OverEarlier(n)
              /\ calcs = HardCycleDoc =>
                    results[RRef(1)] = Full(1) /\ results[RRef(2)] = Full(2)

\* C6, its case: the hard cycle was run and its residual nodes are not zero.
C6_Witness ==
    /\ FirstPlainRun
    /\ calcs = HardCycleDoc
    /\ Residual = {1, 2}
    /\ results[RRef(2)] = Full(2)

\* C7 (as claimed): a second run() on the same engine returns what the first did.
C7_RunIdempotent ==
    Len(returns) >= 2 => returns[2] = returns[1]

\* An override made on the fresh engine, before its first run().
BeforeRun(ref) == overridden[ref].at = "idle" /\ overridden[ref].runs = 0

\* The formula of n is the reference ref alone.
ReadsOnly(n, ref) == calcs[n] = [hard |-> {}, soft |-> {}, refs |-> {ref}, c |-> 0]

\* C8 (as claimed): after override_input(ref, v) on a fresh engine and run(),
\* get_input_ref(ref) is v and a formula reading ref was evaluated with v.
C8_OverrideBindsDuringRun ==
    (Finished /\ Len(returns) = 1) =>
        \A ref \in DOMAIN overridden :
            BeforeRun(ref) =>
                /\ context[ref] = overridden[ref].v
                /\ \A n \in Ids : ReadsOnly(n, ref) => results[RRef(n)] = overridden[ref].v

\* The nodes that read one of refs, directly or through hard or lag references.
RECURSIVE DownstreamFrom(_, _)
DownstreamFrom(refs, D) ==
    LET more == {n \in Ids :
                    \/ calcs[n].refs \cap refs # {}
                    \/ (calcs[n].hard \cup calcs[n].soft) \cap D # {}}
    IN  IF more \subseteq D THEN D ELSE DownstreamFrom(refs, D \cup more)

Downstream(refs) == DownstreamFrom(refs, {})

\* The first run of a fresh engine made after the base case.
ScenarioRun == engines > 1 /\ Finished /\ Len(returns) = 1

\* C9: the results of a fresh engine's run with overrides differ from those of
\* the base run only at nodes downstream of the overridden references.
C9_OverrideFrame ==
    ScenarioRun =>
        \A n \in Ids \ Downstream(DOMAIN overridden) :
            returns[1][RRef(n)] = base[RRef(n)]

\* C9, its case: an override of C1.1 that changed a downstream node and left a
\* node outside the closure, with a result that is not zero, as it was.
C9_Witness ==
    /\ ScenarioRun
    /\ DOMAIN overridden = {C1Item(1)}
    /\ \E n \in Downstream({C1Item(1)}) : returns[1][RRef(n)] # base[RRef(n)]
    /\ \E n \in Ids \ Downstream({C1Item(1)}) :
          returns[1][RRef(n)] # Zeros /\ returns[1][RRef(n)] = base[RRef(n)]

\* The references of the model: those the builder produces and the R<id>.
ModelRefs == DOMAIN build_input_group_refs(items) \cup {RRef(n) : n \in Ids}

\* C10 (as claimed): override_input with a ref that names no reference of the
\* model creates no entry in the reference map and changes no formula's result.
C10_UnknownRefIgnored ==
    \A ref \in DOMAIN overridden \ ModelRefs :
        /\ ref \notin DOMAIN context
        /\ (ScenarioRun /\ DOMAIN overridden = {ref}) => returns[1] = base

\* C11 (as claimed): after run(), every formula that failed to parse or to
\* evaluate has the all-zero array of length P as its result and an entry in
\* engine.errors.
C11_BadFormulaRecorded ==
    Finished =>
        \A n \in Ids :
            Unresolved(calcs[n], context) =>
                results[RRef(n)] = Zeros /\ n \in errors

\* The formula of n is V9 + c, and V9 is absent from the reference map.
ReadsUndefined(n) ==
    /\ calcs[n].hard = {} /\ calcs[n].soft = {} /\ calcs[n].refs = {V9}
    /\ V9 \notin DOMAIN context

\* C12 (as claimed): a formula V9 + c with V9 absent from the reference map
\* yields c at every period, V9 contributing 0.
C12_UnresolvedRefContributesZero ==
    Finished =>
        \A n \in Ids : ReadsUndefined(n) => results[RRef(n)] = Full(calcs[n].c)

\* C13 (as claimed): after run(), every entry of the reference map is an array
\* of exactly P values, the references set through override_input included.
C13_ContextArraysLengthP ==
    Finished => \A r \in DOMAIN context : Len(context[r]) = NumPeriods

\* ------------------------------------------------------------------ functions on their own
engineVars ==
    <<calcs, items, context, results, pc, sched, node_idx, evaluated_clusters, cur, log,
      returns, overridden, engines, base, errors>>

\* No document is loaded and no run is made while a function is called on its own.
EngineIdle ==
    /\ calcs = <<>>
    /\ items = <<>>
    /\ engines = 1
    /\ base = NoBase
    /\ Fresh

\* ------------------------------------------------------------------ SHIFT in the pre-pass
\* np.cumsum.
_cumsum(arr) == [t \in DOMAIN arr |-> SumFun([i \in 1..t |-> arr[i]])]

\* The arrays bound to R1 when R2 = SHIFT(<inner>, n) is evaluated.
ShiftArrays == [Periods -> {0, 1, 2}]

\* The inner expressions of SHIFT: a reference, an arithmetic expression and
\* another array function.
InnerKinds == {"R1", "R1 + 1", "CUMSUM(R1)"}

\* The lags n: 0, ..., P and one beyond.
ShiftAmounts == 0..(NumPeriods + 1)

\* The inner expression fully evaluated over the array a of R1.
FullyEvaluated(inner, a) ==
    CASE inner = "R1" -> a
      [] inner = "R1 + 1" -> [t \in Periods |-> a[t] + 1]
      [] inner = "CUMSUM(R1)" -> _cumsum(a)

\* _eval_expr_all_periods of what the SHIFT pattern captured, against the
\* context: the results of the earlier patterns (fn_results) are not in it, so
\* a placeholder __ARRAYFN<k>__ is an unknown name and every period gives 0.0.
_eval_expr_all_periods(inner, a) ==
    CASE inner = "R1" -> a
      [] inner = "R1 + 1" -> [t \in Periods |-> a[t] + 1]
      [] inner = "CUMSUM(R1)" -> Zeros

InitShift ==
    /\ EngineIdle
    /\ fn \in [op : {"shift"}, a : ShiftArrays, inner : InnerKinds, n : ShiftAmounts,
                fn_results : {<<>>}, done : {FALSE}, out : {<<>>}]

\* _process_array_functions, the CUMSUM pattern (it comes before SHIFT):
\* CUMSUM(R1) becomes the placeholder __ARRAYFN0__.
PrePassCumsum ==
    /\ fn.op = "shift"
    /\ fn.inner = "CUMSUM(R1)"
    /\ fn.fn_results = <<>>
    /\ fn' = [fn EXCEPT !.fn_results = <<_cumsum(fn.a)>>]
    /\ UNCHANGED engineVars

\* _process_array_functions, the SHIFT pattern, and the outer expression, which
\* is the placeholder of SHIFT alone.
PrePassShift ==
    /\ fn.op = "shift"
    /\ ~fn.done
    /\ fn.inner = "CUMSUM(R1)" => fn.fn_results # <<>>
    /\ fn' = [fn EXCEPT !.out = _shift(_eval_expr_all_periods(fn.inner, fn.a), fn.n),
                        !.done = TRUE]
    /\ UNCHANGED engineVars

NextShift ==
    \/ PrePassCumsum
    \/ PrePassShift

SpecShift == InitShift /\ [][NextShift]_vars

\* C15 (as claimed): outside a cluster SHIFT(e, n)[t] is a[t - n] for t >= n and
\* 0 for t < n, a the fully evaluated inner array, for every n >= 0.
C15_ShiftSemantics ==
    (fn.op = "shift" /\ fn.done) =>
        \A t \in Periods :
            fn.out[t] = IF t - fn.n >= 1
                        THEN FullyEvaluated(fn.inner, fn.a)[t - fn.n]
                        ELSE 0

\* ------------------------------------------------------------------ CUMSUM and PREVSUM
\* The inner arrays of CUMSUM and PREVSUM.
CumArrays == [Periods -> {-1, 0, 1, 2}]

RECURSIVE PrevsumLoop(_, _, _, _)
PrevsumLoop(arr, i, total, result) ==
    IF i > Len(arr) THEN result
    ELSE PrevsumLoop(arr, i + 1, total + arr[i], Append(result, total))

\* A running sum that includes the period itself.
PrevsumInclusive(arr) == _cumsum(arr)

\* _prevsum: result[i] = total, then total += arr[i].
_prevsum(arr) == PrevsumLoop(arr, 1, 0, <<>>)

InitCum ==
    /\ EngineIdle
    /\ fn \in [op : {"cum"}, a : CumArrays, done : {{}}, cumsum : {<<>>}, prevsum : {<<>>}]

ApplyCumsum ==
    /\ fn.op = "cum"
    /\ "cumsum" \notin fn.done
    /\ fn' = [fn EXCEPT !.cumsum = _cumsum(fn.a), !.done = @ \cup {"cumsum"}]
    /\ UNCHANGED engineVars

ApplyPrevsum ==
    /\ fn.op = "cum"
    /\ "prevsum" \notin fn.done
    /\ fn' = [fn EXCEPT !.prevsum = _prevsum(fn.a), !.done = @ \cup {"prevsum"}]
    /\ UNCHANGED engineVars

NextCum ==
    \/ ApplyCumsum
    \/ ApplyPrevsum

SpecCum == InitCum /\ [][NextCum]_vars

\* C16: for every inner array a and every period t, PREVSUM[t] + a[t] = CUMSUM[t],
\* PREVSUM[0] = 0 and CUMSUM[P-1] is the sum of all a[i].
C16_PrevsumCumsumLaw ==
    (fn.op = "cum" /\ fn.done = {"cumsum", "prevsum"}) =>
        /\ \A t \in Periods : fn.prevsum[t] + fn.a[t] = fn.cumsum[t]
        /\ fn.prevsum[1] = 0
        /\ fn.cumsum[NumPeriods] = SumFun(fn.a)

\* C16, its case: both functions applied to an array that starts with a value
\* other than 0 and whose total is not its last value.
C16_Witness ==
    /\ fn.op = "cum"
    /\ fn.done = {"cumsum", "prevsum"}
    /\ fn.a[1] # 0
    /\ fn.cumsum[NumPeriods] # fn.a[NumPeriods]

\* ------------------------------------------------------------------ CUMSUM_Y
\* The number of periods of the timelines CUMSUM_Y is applied on: enough months
\* for two changes of the calendar year.
YearSpan == 14

RECURSIVE TimelineLoop(_, _, _, _)
TimelineLoop(y, m, n, acc) ==
    IF n = 0 THEN acc
    ELSE TimelineLoop(IF m + 1 > 12 THEN y + 1 ELSE y,
                      IF m + 1 > 12 THEN 1 ELSE m + 1,
                      n - 1,
                      Append(acc, [year |-> y, month |-> m]))

\* build_timeline: one entry per month from the start month on, n of them.
build_timeline(start_year, start_month, n) == TimelineLoop(start_year, start_month, n, <<>>)

\* timeline['year'].
YearArr(tl) == [i \in DOMAIN tl |-> tl[i].year]

\* The inner arrays of CUMSUM_Y: ramps, and a single 1 at one period.
YearArrays ==
    {[t \in 1..YearSpan |-> b + k * t] : b \in {0, 1}, k \in {-1, 1, 2}}
    \cup {[t \in 1..YearSpan |-> IF t = k THEN 1 ELSE 0] : k \in 1..YearSpan}

RECURSIVE CumsumYLoop(_, _, _, _, _, _, _, _)
CumsumYLoop(arr, year_arr, i, total, has_last, last_year, last_year_value, result) ==
    IF i > Len(arr) THEN result
    ELSE LET cy == year_arr[i]
             changed == ~has_last \/ cy # last_year
             total2 == IF has_last /\ cy # last_year THEN total + last_year_value ELSE total
         IN  CumsumYLoop(arr, year_arr, i + 1, total2, TRUE, cy,
                         IF changed THEN arr[i] ELSE last_year_value,
                         Append(result, total2))

\* A yearly sum that absorbs every value of the completed year.
CumsumYWholeYear(arr, year_arr) ==
    [t \in DOMAIN arr |->
        SumFun([i \in {j \in DOMAIN arr : year_arr[j] < year_arr[t]} |-> arr[i]])]

\* _cumsum_y: when the year changes the total absorbs the value at the first
\* period of the year just completed.
_cumsum_y(arr, year_arr) == CumsumYLoop(arr, year_arr, 1, 0, FALSE, 0, 0, <<>>)

InitCumsumY ==
    /\ EngineIdle
    /\ fn \in [op : {"cumsum_y"}, a : YearArrays, start_year : {2025}, start_month : 1..12,
                done : {FALSE}, out : {<<>>}]

\* The timeline of the call.
FnTimeline == build_timeline(fn.start_year, fn.start_month, YearSpan)

ApplyCumsumY ==
    /\ fn.op = "cumsum_y"
    /\ ~fn.done
    /\ fn' = [fn EXCEPT !.out = _cumsum_y(fn.a, YearArr(FnTimeline)), !.done = TRUE]
    /\ UNCHANGED engineVars

NextCumsumY ==
    \/ ApplyCumsumY

SpecCumsumY == InitCumsumY /\ [][NextCumsumY]_vars

\* The first period of the timeline that lies in calendar year y.
FirstOfYear(tl, y) == CHOOSE i \in DOMAIN tl : tl[i].year = y /\ \A j \in 1..(i - 1) : tl[j].year # y

\* The calendar years of the timeline strictly earlier than that of period t.
YearsBefore(tl, t) == {tl[i].year : i \in {j \in DOMAIN tl : tl[j].year < tl[t].year}}

\* C17: CUMSUM_Y(e)[t] is the sum, over the calendar years of the timeline
\* strictly earlier than the year of t, of a at the first timeline period of that
\* year; it is 0 throughout the first year and constant within each year.
C17_CumsumYSemantics ==
    (fn.op = "cumsum_y" /\ fn.done) =>
        /\ \A t \in 1..YearSpan :
              fn.out[t] = SumFun([y \in YearsBefore(FnTimeline, t) |->
                                    fn.a[FirstOfYear(FnTimeline, y)]])
        /\ \A t \in 1..YearSpan :
              FnTimeline[t].year = fn.start_year => fn.out[t] = 0
        /\ \A t, u \in 1..YearSpan :
              FnTimeline[t].year = FnTimeline[u].year => fn.out[t] = fn.out[u]

\* C17, its case: a timeline of three calendar years, two of them completed
\* before the last period, and a total that took a value from each.
C17_Witness ==
    /\ fn.op = "cumsum_y"
    /\ fn.done
    /\ FnTimeline[YearSpan].year = fn.start_year + 2
    /\ fn.out[YearSpan] # fn.out[YearSpan - 1]
    /\ fn.out[YearSpan - 1] # 0

\* ------------------------------------------------------------------ key-period flags
\* The months a key period starts or ends in, and those a timeline starts in.
KeyMonths == {<<y, m>> : y \in {2025, 2026}, m \in {1, 2, 11, 12}}
TimelineStarts == {<<2025, 11>>, <<2025, 12>>, <<2026, 1>>}

\* year * 12 + month.
MonthTotal(y, m) == y * 12 + m

RECURSIVE FlagLoop(_, _, _, _, _, _)
FlagLoop(tl, start_total, end_total, i, arr, idx) ==
    IF i > Len(tl) THEN [arr |-> arr, first_idx |-> idx[1], last_idx |-> idx[2]]
    ELSE LET pt == MonthTotal(tl[i].year, tl[i].month)
             in_range == start_total <= pt /\ pt <= end_total
         IN  FlagLoop(tl, start_total, end_total, i + 1,
                      Append(arr, IF in_range THEN 1 ELSE 0),
                      IF in_range THEN <<IF idx[1] = 0 THEN i ELSE idx[1], i>> ELSE idx)

\* Flags whose End array marks the first active period.
FlagsEndAtFirst(kp, tl) ==
    LET scan == FlagLoop(tl, MonthTotal(kp.startYear, kp.startMonth),
                         MonthTotal(kp.endYear, kp.endMonth), 1, <<>>, <<0, 0>>)
        mark == [i \in DOMAIN tl |-> IF i = scan.first_idx THEN 1 ELSE 0]
    IN  [F |-> scan.arr, Start |-> mark, End |-> mark]

\* build_flag_refs for one key period: F<id>, F<id>.Start and F<id>.End
\* (first_idx and last_idx are 0 here where the code has -1).
build_flag_refs(kp, tl) ==
    LET scan == FlagLoop(tl, MonthTotal(kp.startYear, kp.startMonth),
                         MonthTotal(kp.endYear, kp.endMonth), 1, <<>>, <<0, 0>>)
    IN  [F     |-> scan.arr,
         Start |-> [i \in DOMAIN tl |-> IF i = scan.first_idx THEN 1 ELSE 0],
         End   |-> [i \in DOMAIN tl |-> IF i = scan.last_idx THEN 1 ELSE 0]]

InitFlags ==
    /\ EngineIdle
    /\ \E s \in KeyMonths, e \in KeyMonths, t \in TimelineStarts :
          fn = [op |-> "flags",
                kp |-> [startYear |-> s[1], startMonth |-> s[2],
                        endYear |-> e[1], endMonth |-> e[2]],
                start_year |-> t[1], start_month |-> t[2],
                done |-> FALSE, refs |-> <<>>]

\* The timeline of the call: P months.
FlagTimeline == build_timeline(fn.start_year, fn.start_month, NumPeriods)

BuildFlagRefs ==
    /\ fn.op = "flags"
    /\ ~fn.done
    /\ fn' = [fn EXCEPT !.refs = build_flag_refs(fn.kp, FlagTimeline), !.done = TRUE]
    /\ UNCHANGED engineVars

NextFlags ==
    \/ BuildFlagRefs

SpecFlags == InitFlags /\ [][NextFlags]_vars

\* The timeline periods inside the key period's month range.
ActivePeriods ==
    {t \in Periods :
        /\ MonthTotal(fn.kp.startYear, fn.kp.startMonth)
              <= MonthTotal(FlagTimeline[t].year, FlagTimeline[t].month)
        /\ MonthTotal(FlagTimeline[t].year, FlagTimeline[t].month)
              <= MonthTotal(fn.kp.endYear, fn.kp.endMonth)}

\* C18: F<id>[t] is 1 exactly at the timeline periods inside the key period's
\* range; F<id>.Start is 1 at exactly the first of them and F<id>.End at exactly
\* the last; both are all-zero exactly when there is none, and each sums to 1
\* otherwise.
C18_FlagStartEnd ==
    (fn.op = "flags" /\ fn.done) =>
        /\ \A t \in Periods : fn.refs.F[t] = IF t \in ActivePeriods THEN 1 ELSE 0
        /\ \A t \in Periods :
              fn.refs.Start[t] =
                  IF t \in ActivePeriods /\ \A u \in ActivePeriods : t <= u THEN 1 ELSE 0
        /\ \A t \in Periods :
              fn.refs.End[t] =
                  IF t \in ActivePeriods /\ \A u \in ActivePeriods : u <= t THEN 1 ELSE 0
        /\ (fn.refs.Start = Zeros /\ fn.refs.End = Zeros) <=> ActivePeriods = {}
        /\ ActivePeriods # {} => SumFun(fn.refs.Start) = 1 /\ SumFun(fn.refs.End) = 1

\* C18, its case: a key period that covers part of the timeline, its first
\* active period not its last.
C18_Witness ==
    /\ fn.op = "flags"
    /\ fn.done
    /\ Cardinality(ActivePeriods) = 2
    /\ fn.refs.Start # fn.refs.End

\* ------------------------------------------------------------------ input group references
\* The largest number of input groups of a document.
MaxGroups == 2

\* What decides the family of a group: the groupType timing or constant, else
\* the entryMode, "custom" standing for an entry mode the builder does not know.
GroupModes == {"values", "series", "constant", "timing", "lookup", "lookup2", "custom"}

GroupIds == {1, 2, 100}

\* The group at position k of the document holds some of the items k and 100 + k
\* (item ids are unique in a document); a group without items is not active.
GroupsAt(k) == [id : GroupIds, mode : GroupModes, items : SUBSET {k, 100 + k}]

RECURSIVE GroupLists(_)
GroupLists(n) ==
    IF n = 0 THEN {<<>>}
    ELSE {Append(gs, g) : gs \in {l \in GroupLists(n - 1) : Len(l) = n - 1},
                          g \in GroupsAt(n)}
         \cup GroupLists(n - 1)

\* The documents of at most n groups: the group ids are distinct.
GroupDocs(n) ==
    {gs \in GroupLists(n) :
        gs # <<>> /\ \A a, b \in DOMAIN gs : a # b => gs[a].id # gs[b].id}

\* "Determine normalized mode".
NormMode(group) == IF group.mode \in {"lookup", "lookup2"} THEN "lookup" ELSE group.mode

\* prefix_map.get(norm, 'V').
Prefix(norm) ==
    CASE norm = "timing" -> "T"
      [] norm = "series" -> "S"
      [] norm = "constant" -> "C"
      [] norm = "lookup" -> "L"
      [] OTHER -> "V"

\* mode_indices.get(norm, 0).
ModeIndex(mode_indices, norm) ==
    IF norm \in DOMAIN mode_indices THEN mode_indices[norm] ELSE 0

\* inp_num of an item.
InpNum(group, item) == IF group.id = 100 THEN item - 99 ELSE item

\* active_groups: the groups that have inputs, in document order.
ActiveGroups(gs) == SelectSeq(gs, LAMBDA g : g.items # {})

InitGroupRefs ==
    /\ EngineIdle
    /\ \E gs \in GroupDocs(MaxGroups) :
          fn = [op |-> "refs", groups |-> gs, i |-> 1,
                mode_indices |-> [n \in {"values", "series", "constant", "timing", "lookup"} |-> 0],
                refs |-> <<>>, names |-> <<>>]

\* build_input_group_refs, one turn of "for group in active_groups": the
\* group's reference and its items' references are written into refs. An array
\* is stood for by the group or item it was built from.
BuildGroupRefs ==
    /\ fn.op = "refs"
    /\ fn.i <= Len(ActiveGroups(fn.groups))
    /\ LET group == ActiveGroups(fn.groups)[fn.i]
           norm == NormMode(group)
           group_index == ModeIndex(fn.mode_indices, norm) + 1
           group_ref == <<Prefix(norm), group_index>>
           item_refs == [r \in {<<Prefix(norm), group_index, InpNum(group, it)>> : it \in group.items} |->
                            [group |-> group.id,
                             item |-> CHOOSE it \in group.items : InpNum(group, it) = r[3]]]
           written == <<[name |-> group_ref, group |-> group.id, item |-> 0]>>
                      \o [k \in 1..Cardinality(group.items) |->
                            [name |-> <<Prefix(norm), group_index,
                                        InpNum(group, SortedSeq(group.items)[k])>>,
                             group |-> group.id, item |-> SortedSeq(group.items)[k]]]
       IN  fn' = [fn EXCEPT
                    !.mode_indices = (norm :> group_index) @@ @,
                    !.refs = item_refs @@ (group_ref :> [group |-> group.id, item |-> 0]) @@ @,
                    !.names = @ \o written,
                    !.i = @ + 1]
    /\ UNCHANGED engineVars

NextGroupRefs ==
    \/ BuildGroupRefs

SpecGroupRefs == InitGroupRefs /\ [][NextGroupRefs]_vars

\* C19 (as claimed): no two distinct input groups and no two distinct items are
\* given the same reference name, so every generated array is still in the map
\* under its name.
C19_RefNamesUnique ==
    fn.op = "refs" =>
        /\ \A a, b \in DOMAIN fn.names : a # b => fn.names[a].name # fn.names[b].name
        /\ \A a \in DOMAIN fn.names :
              fn.refs[fn.names[a].name] =
                  [group |-> fn.names[a].group, item |-> fn.names[a].item]

\* ------------------------------------------------------------------ reserve facility
\* The largest number of entries of a refinancing schedule.
MaxRefis == 2

\* The entries of a refinancing schedule: monthIndex 0..P, marginPct, active.
Refis == [monthIndex : 0..NumPeriods, marginPct : {2, 3}, feePct : {100}, active : BOOLEAN]

\* The schedule entries that differ in monthIndex and active only.
RefisOfOneMargin == {r \in Refis : r.marginPct = 2}

RECURSIVE SchedulesOver(_, _)
SchedulesOver(R, n) ==
    IF n = 0 THEN {<<>>}
    ELSE {Append(rs, r) : rs \in {l \in SchedulesOver(R, n - 1) : Len(l) = n - 1}, r \in R}
         \cup SchedulesOver(R, n - 1)

RECURSIVE RefiSchedules(_)
RefiSchedules(n) ==
    IF n = 0 THEN {<<>>}
    ELSE {Append(rs, r) : rs \in {l \in RefiSchedules(n - 1) : Len(l) = n - 1}, r \in Refis}
         \cup RefiSchedules(n - 1)

\* sorted(..., key=monthIndex) is stable: r goes after the entries not later than it.
RECURSIVE InsertByMonth(_, _)
InsertByMonth(sorted, r) ==
    IF sorted = <<>> THEN <<r>>
    ELSE IF Head(sorted).monthIndex <= r.monthIndex
         THEN <<Head(sorted)>> \o InsertByMonth(Tail(sorted), r)
    ELSE <<r>> \o sorted

RECURSIVE SortByMonth(_, _)
SortByMonth(rs, sorted) ==
    IF rs = <<>> THEN sorted ELSE SortByMonth(Tail(rs), InsertByMonth(sorted, Head(rs)))

\* active_refis: the active entries with monthIndex > 0, sorted by monthIndex.
ActiveRefis(schedule) ==
    SortByMonth(SelectSeq(schedule, LAMBDA r : r.active /\ r.monthIndex > 0), <<>>)

\* The loop "Effective margin": at most one entry is taken per period i
\* (i counts from 0).
RECURSIVE MarginLoop(_, _, _, _, _)
MarginLoop(active_refis, i, current_margin, next_refi, eff_margin) ==
    IF i >= NumPeriods THEN eff_margin
    ELSE LET take == next_refi < Len(active_refis)
                     /\ i >= active_refis[next_refi + 1].monthIndex
             margin == IF take THEN active_refis[next_refi + 1].marginPct ELSE current_margin
         IN  MarginLoop(active_refis, i + 1, margin,
                        IF take THEN next_refi + 1 ELSE next_refi,
                        Append(eff_margin, margin))

\* _calculate_dsrf, the output effective_margin: zeros when the facility is not
\* active or the operations flag is never 1.
EffectiveMargin(dsrf_active, ops_flag, base_margin, schedule) ==
    IF dsrf_active = 0 THEN Zeros
    ELSE IF \A t \in Periods : ops_flag[t] # 1 THEN Zeros
    ELSE MarginLoop(ActiveRefis(schedule), 0, base_margin, 0, <<>>)

\* ops_start: the first period (from 0) whose operations flag is 1, -1 when
\* there is none.
OpsStart(ops_flag) ==
    LET on == {i \in 0..(NumPeriods - 1) : ops_flag[i + 1] = 1}
    IN  IF on = {} THEN -1 ELSE CHOOSE i \in on : \A j \in on : i <= j

Abs(x) == IF x < 0 THEN -x ELSE x

\* fwd_sum: the sum of |debt_service[j]| for j in range(i, min(i + facility_months, length)).
RECURSIVE FwdSum(_, _, _)
FwdSum(debt_service, i, facility_months) ==
    IF facility_months <= 0 \/ i >= NumPeriods THEN 0
    ELSE Abs(debt_service[i + 1]) + FwdSum(debt_service, i + 1, facility_months - 1)

\* recalc_points: ops_start, then the monthIndex of the active entries after
\* ops_start and inside the timeline.
RecalcPoints(ops_flag, schedule) ==
    LET late == SelectSeq(ActiveRefis(schedule),
                          LAMBDA r : r.monthIndex > OpsStart(ops_flag) /\ r.monthIndex < NumPeriods)
    IN  <<OpsStart(ops_flag)>> \o [k \in DOMAIN late |-> late[k].monthIndex]

\* Only the recalculation point that was met is passed.
PassOnePoint(recalc_points, next_recalc, i) == next_recalc + 1

\* while next_recalc < len(recalc_points) and recalc_points[next_recalc] <= i.
RECURSIVE PassPoints(_, _, _)
PassPoints(recalc_points, next_recalc, i) ==
    IF next_recalc < Len(recalc_points) /\ recalc_points[next_recalc + 1] <= i
    THEN PassPoints(recalc_points, next_recalc + 1, i)
    ELSE next_recalc

\* The loop "Facility limit": periods whose flag is not 1 are skipped and stay 0.
RECURSIVE FacilityLoop(_, _, _, _, _, _, _, _)
FacilityLoop(ops_flag, debt_service, facility_months, recalc_points, i, current_limit, next_recalc, fac_limit) ==
    IF i >= NumPeriods THEN fac_limit
    ELSE IF ops_flag[i + 1] # 1
    THEN FacilityLoop(ops_flag, debt_service, facility_months, recalc_points,
                      i + 1, current_limit, next_recalc, Append(fac_limit, 0))
    ELSE LET recalc == next_recalc < Len(recalc_points)
                       /\ i >= recalc_points[next_recalc + 1]
             limit == IF recalc THEN FwdSum(debt_service, i, facility_months)
                      ELSE current_limit
         IN  FacilityLoop(ops_flag, debt_service, facility_months, recalc_points, i + 1, limit,
                          IF recalc THEN PassPoints(recalc_points, next_recalc, i)
                          ELSE next_recalc,
                          Append(fac_limit, limit))

\* _calculate_dsrf, the output facility_limit.
FacilityLimit(dsrf_active, ops_flag, debt_service, facility_months, schedule) ==
    IF dsrf_active = 0 THEN Zeros
    ELSE IF OpsStart(ops_flag) < 0 THEN Zeros
    ELSE FacilityLoop(ops_flag, debt_service, facility_months,
                      RecalcPoints(ops_flag, schedule), 0, 0, 0, <<>>)

\* _calculate_dsrf, the output refi_fees: the limit times feePct / 100 at the
\* monthIndex of each active entry whose flag is 1.
RefiFees(dsrf_active, ops_flag, fac_limit, schedule) ==
    IF dsrf_active = 0 \/ OpsStart(ops_flag) < 0 THEN Zeros
    ELSE LET rs == ActiveRefis(schedule)
             at(i) == {k \in DOMAIN rs : rs[k].monthIndex = i /\ ops_flag[i + 1] = 1}
             last(i) == CHOOSE k \in at(i) : \A j \in at(i) : j <= k
         IN  [t \in Periods |->
                IF at(t - 1) = {} THEN 0
                ELSE (fac_limit[t] * rs[last(t - 1)].feePct) \div 100]

InitDsrf ==
    /\ EngineIdle
    /\ fn \in [op : {"dsrf"}, dsrf_active : {0, 1}, ops_flag : [Periods -> {0, 1}],
                base_margin : {1}, schedule : RefiSchedules(MaxRefis),
                debt_service : {Zeros}, facility_months : {1},
                done : {FALSE}, effective_margin : {<<>>},
                facility_limit : {<<>>}, refi_fees : {<<>>}]

\* The inputs of the facility limit: debt service of both signs, a window of
\* 1 or 2 periods, an active facility.
InitDsrfLimit ==
    /\ EngineIdle
    /\ fn \in [op : {"dsrf"}, dsrf_active : {1}, ops_flag : [Periods -> {0, 1}],
                base_margin : {1}, schedule : SchedulesOver(RefisOfOneMargin, MaxRefis),
                debt_service : [Periods -> {-2, 1}], facility_months : {1, 2},
                done : {FALSE}, effective_margin : {<<>>},
                facility_limit : {<<>>}, refi_fees : {<<>>}]

CalculateDsrf ==
    /\ fn.op = "dsrf"
    /\ ~fn.done
    /\ fn' = [fn EXCEPT
                 !.effective_margin =
                     EffectiveMargin(fn.dsrf_active, fn.ops_flag, fn.base_margin, fn.schedule),
                 !.facility_limit =
                     FacilityLimit(fn.dsrf_active, fn.ops_flag, fn.debt_service,
                                   fn.facility_months, fn.schedule),
                 !.refi_fees =
                     RefiFees(fn.dsrf_active, fn.ops_flag,
                              FacilityLimit(fn.dsrf_active, fn.ops_flag, fn.debt_service,
                                            fn.facility_months, fn.schedule),
                              fn.schedule),
                 !.done = TRUE]
    /\ UNCHANGED engineVars

NextDsrf ==
    \/ CalculateDsrf

SpecDsrf == InitDsrf /\ [][NextDsrf]_vars

SpecDsrfLimit == InitDsrfLimit /\ [][NextDsrf]_vars

\* The refinancings in force at period i (from 0): those of the greatest
\* monthIndex not after i, among the active entries with a monthIndex above 0.
InForce(i) ==
    LET past == {k \in DOMAIN fn.schedule :
                    /\ fn.schedule[k].active
                    /\ fn.schedule[k].monthIndex > 0
                    /\ fn.schedule[k].monthIndex <= i}
    IN  {k \in past : \A j \in past : fn.schedule[j].monthIndex <= fn.schedule[k].monthIndex}

\* C20 (as claimed): with an active facility, for every schedule and every
\* operations flag, effective_margin is the base margin before the first
\* refinancing and afterwards the marginPct of the refinancing of the greatest
\* monthIndex not after the period, so it changes at a refinancing month only.
C20_EffectiveMargin ==
    (fn.op = "dsrf" /\ fn.done /\ fn.dsrf_active # 0) =>
        \A i \in 0..(NumPeriods - 1) :
            /\ InForce(i) = {} => fn.effective_margin[i + 1] = fn.base_margin
            /\ InForce(i) # {} =>
                  fn.effective_margin[i + 1] \in {fn.schedule[k].marginPct : k \in InForce(i)}
            /\ (i > 0 /\ InForce(i) = InForce(i - 1)) =>
                  fn.effective_margin[i + 1] = fn.effective_margin[i]

\* ------------------------------------------------------------------ debt sizing
\* Amounts of the solver are kept in fixed point: Scale units to 1.
Scale == 2 ^ 13

\* A debt flag that is 1 in the periods a..b (counted from 0) of n, 0 elsewhere.
FlagOn(a, b, n) == [t \in 1..n |-> IF a <= t - 1 /\ t - 1 <= b THEN 1 ELSE 0]

\* The inputs of the solver: the per-period CFADS are constant arrays, the
\* DSCRs are in hundredths, the tolerance in tenths, total funding is a number.
\* A tolerance of 0 or below comes with the small iteration cap: the fixed
\* point cannot halve an interval of one unit. A tenor of 0 comes with one
\* value of what the schedule reads, for its schedule has no period.
DebtInputs ==
    {in \in [length : {12}, start_month : {1},
             contracted_cfads : {100, 0}, contracted_dscr : {125},
             merchant_cfads : {0, 30}, merchant_dscr : {150},
             debt_flag : {FlagOn(0, 11, 12), FlagOn(3, 8, 12), FlagOn(1, 0, 12)},
             total_funding : {10000, 800, 0}, max_gearing_pct : {100, 50},
             interest_rate_pct : {0, 5}, tenor_years : {1, 0},
             debt_period : {"M", "Q", "Y"},
             tolerance : {1, 0, -1}, max_iterations : {50, 3}] :
        /\ in.tolerance <= 0 => in.max_iterations = 3
        /\ in.tenor_years = 0 =>
              /\ in.contracted_cfads = 100 /\ in.merchant_cfads = 0
              /\ in.interest_rate_pct = 0 /\ in.debt_period = "M"}

\* ds_capacity[i]: contracted CFADS / DSCR plus merchant CFADS / DSCR.
ds_capacity(in) ==
    LET cc == IF in.contracted_dscr > 0
              THEN (in.contracted_cfads * Scale * 100) \div in.contracted_dscr ELSE 0
        mc == IF in.merchant_dscr > 0
              THEN (in.merchant_cfads * Scale * 100) \div in.merchant_dscr ELSE 0
    IN  cc + mc

\* debt_start: the first period (from 0) whose flag is 1, -1 when there is none.
debt_start(in) ==
    LET on == {i \in 0..(in.length - 1) : in.debt_flag[i + 1] = 1}
    IN  IF on = {} THEN -1 ELSE CHOOSE i \in on : \A j \in on : i <= j

\* debt_flag_end: the last period whose flag is 1.
debt_flag_end(in) ==
    LET on == {i \in 0..(in.length - 1) : in.debt_flag[i + 1] = 1}
    IN  CHOOSE i \in on : \A j \in on : j <= i

Min3(a, b, c) == IF a <= b /\ a <= c THEN a ELSE IF b <= c THEN b ELSE c

\* debt_end = min(debt_start + tenor_months - 1, debt_flag_end, length - 1).
debt_end(in) ==
    Min3(debt_start(in) + in.tenor_years * 12 - 1, debt_flag_end(in), in.length - 1)

\* _is_period_end, month_idx from 0.
_is_period_end(month_idx, debt_period, tl) ==
    IF debt_period = "M" THEN TRUE
    ELSE LET month == IF month_idx < Len(tl) THEN tl[month_idx + 1].month
                      ELSE (month_idx % 12) + 1
         IN  IF debt_period = "Q" THEN month \in {3, 6, 9, 12}
             ELSE IF debt_period = "Y" THEN month = 12
             ELSE TRUE

\* is_pay at period i.
IsPay(in, i, tl) == _is_period_end(i, in.debt_period, tl) \/ i = debt_end(in)

\* A payment is infeasible whenever it is below the level payment.
InfeasibleWithoutSlack(princ, min_princ) == princ < min_princ

\* if princ < min_princ * 0.9: ok = False.
Infeasible(princ, min_princ) == 10 * princ < 9 * min_princ

\* A principal that stays within the capacity at debt_end too.
PrincipalWithinCapacity(at_end, balance, min_princ, max_princ) ==
    IF max_princ >= min_princ THEN min_princ ELSE max_princ

\* princ: the balance at debt_end, else the level payment when the capacity
\* allows it, else the capacity.
Principal(at_end, balance, min_princ, max_princ) ==
    IF at_end THEN balance
    ELSE IF max_princ >= min_princ THEN min_princ
    ELSE max_princ

\* The loop "Generate schedule": the balance and the flag ok after the periods
\* i..debt_end, with the payments made on the way.
RECURSIVE ScheduleLoop(_, _, _, _, _, _, _, _)
ScheduleLoop(in, tl, i, balance, accrued_interest, accrued_capacity, ok, payments) ==
    IF i > debt_end(in) THEN [balance |-> balance, ok |-> ok, payments |-> payments]
    ELSE LET interest == accrued_interest + (balance * in.interest_rate_pct) \div 1200
             capacity == accrued_capacity + ds_capacity(in)
         IN  IF ~IsPay(in, i, tl)
             THEN ScheduleLoop(in, tl, i + 1, balance, interest, capacity, ok, payments)
             ELSE LET remaining == Cardinality({j \in i..debt_end(in) : IsPay(in, j, tl)})
                      min_princ == IF remaining > 0 THEN balance \div remaining ELSE balance
                      max_princ == IF capacity - interest > 0 THEN capacity - interest ELSE 0
                      princ == Principal(i = debt_end(in), balance, min_princ, max_princ)
                      infeasible == /\ i # debt_end(in)
                                    /\ max_princ < min_princ
                                    /\ Infeasible(max_princ, min_princ)
                      paid == IF princ < balance THEN princ ELSE balance
                  IN  ScheduleLoop(in, tl, i + 1, balance - paid, 0, 0, ok /\ ~infeasible,
                                   Append(payments, [i |-> i, min_princ |-> min_princ,
                                                     max_princ |-> max_princ,
                                                     balance |-> balance - paid]))

\* One schedule simulation of the candidate principal test.
Simulate(in, test) ==
    ScheduleLoop(in, build_timeline(2025, in.start_month, in.length),
                 debt_start(in), test, 0, 0, TRUE, <<>>)

\* fully_repaid and ok: balance < 0.001 and no infeasible step.
Accepted(in, test) ==
    LET sim == Simulate(in, test)
    IN  sim.balance <= Scale \div 1000 /\ sim.ok

\* A search that never finds the interval narrow enough.
NeverWithinTolerance(in, lower, upper) == FALSE

\* upper - lower <= tolerance.
WithinTolerance(in, lower, upper) == 10 * (upper - lower) <= in.tolerance * Scale

InitDebt ==
    /\ EngineIdle
    /\ \E in \in DebtInputs :
          fn = [op |-> "debt", in |-> in, lower |-> 0,
                upper |-> in.total_funding * ((in.max_gearing_pct * Scale) \div 100),
                best_debt |-> 0, iter |-> 0, done |-> FALSE, sized_debt |-> <<>>,
                upper0 |-> in.total_funding * ((in.max_gearing_pct * Scale) \div 100),
                accepts |-> 0, sim |-> <<>>]

\* if debt_start < 0: return zeros.
DebtNeverActive ==
    /\ fn.op = "debt"
    /\ ~fn.done
    /\ debt_start(fn.in) < 0
    /\ fn' = [fn EXCEPT !.done = TRUE, !.sized_debt = [t \in 1..fn.in.length |-> 0]]
    /\ UNCHANGED engineVars

\* An accepted candidate that is not recorded as the best.
AcceptWithoutBest(f, test) == [f EXCEPT !.lower = test]

\* if fully_repaid and ok: lower = test, best_debt = test.
AcceptCandidate(f, test) == [f EXCEPT !.lower = test, !.best_debt = test]

\* else: upper = test.
RejectCandidate(f, test) == [f EXCEPT !.upper = test]

\* One iteration of the binary search; sim keeps the simulation it made with
\* the interval it started from, accepts counts the accepted candidates.
SearchStep ==
    /\ fn.op = "debt"
    /\ ~fn.done
    /\ debt_start(fn.in) >= 0
    /\ fn.iter < fn.in.max_iterations
    /\ ~WithinTolerance(fn.in, fn.lower, fn.upper)
    /\ LET test == (fn.lower + fn.upper) \div 2
           next == IF Accepted(fn.in, test) THEN AcceptCandidate(fn, test)
                   ELSE RejectCandidate(fn, test)
       IN  fn' = [next EXCEPT !.iter = fn.iter + 1,
                              !.accepts = fn.accepts + (IF Accepted(fn.in, test) THEN 1 ELSE 0),
                              !.sim = <<[test |-> test, accepted |-> Accepted(fn.in, test),
                                         lower |-> fn.lower, upper |-> fn.upper,
                                         balance |-> Simulate(fn.in, test).balance,
                                         payments |-> Simulate(fn.in, test).payments]>>]
    /\ UNCHANGED engineVars

\* The search leaves the loop: sized_debt = np.full(length, best_debt).
SearchEnd ==
    /\ fn.op = "debt"
    /\ ~fn.done
    /\ debt_start(fn.in) >= 0
    /\ fn.iter >= fn.in.max_iterations \/ WithinTolerance(fn.in, fn.lower, fn.upper)
    /\ fn' = [fn EXCEPT !.done = TRUE,
                         !.sized_debt = [t \in 1..fn.in.length |-> fn.best_debt]]
    /\ UNCHANGED engineVars

NextDebt ==
    \/ DebtNeverActive
    \/ SearchStep
    \/ SearchEnd

SpecDebt == InitDebt /\ [][NextDebt]_vars

\* The example: CFADS 100 at DSCR 1.25, no merchant CFADS, tenor 1 year, rate
\* 0, the flag on in 0..11, gearing 100, funding 10000, monthly payments.
IsExample(in) ==
    /\ in.length = 12 /\ in.contracted_cfads = 100 /\ in.contracted_dscr = 125
    /\ in.merchant_cfads = 0 /\ in.tenor_years = 1 /\ in.interest_rate_pct = 0
    /\ in.debt_flag = FlagOn(0, 11, 12) /\ in.max_gearing_pct = 100
    /\ in.total_funding = 10000 /\ in.debt_period = "M"
    /\ in.tolerance = 1 /\ in.max_iterations = 50

\* C14 (as claimed): in the example the search ends with sized_debt within the
\* tolerance of 960 = 1200/1.25 at every period.
C14_SizedDebtIs960 ==
    (fn.op = "debt" /\ fn.done /\ IsExample(fn.in)) =>
        \A t \in 1..fn.in.length :
            /\ 10 * (fn.sized_debt[t] - 960 * Scale) <= fn.in.tolerance * Scale
            /\ 10 * (960 * Scale - fn.sized_debt[t]) <= fn.in.tolerance * Scale

\* C14 (amended): in the example the search ends with the same sized_debt at
\* every period, not above 8800/9 (about 977.78) and within the tolerance of
\* it: eleven payments of the capacity 80 pass the nine-tenths test up to that
\* principal and the rest is paid at debt_end.
C14_SizedDebtExample ==
    (fn.op = "debt" /\ fn.done /\ IsExample(fn.in)) =>
        \A t \in 1..fn.in.length :
            /\ 9 * fn.sized_debt[t] <= 8800 * Scale
            /\ 10 * (8800 * Scale - 9 * fn.sized_debt[t]) <= 9 * fn.in.tolerance * Scale

\* The search of the example has ended, above 960.
C14_Witness ==
    /\ fn.op = "debt" /\ fn.done /\ IsExample(fn.in)
    /\ fn.sized_debt[1] > 960 * Scale

\* ------------------------------------------------------------------ array functions at one period
\* The array functions applied to a reference, as in "CUMSUM(V1)".
ArrayFnNames == {"PREVSUM", "CUMSUM", "COUNT", "CUMPROD", "CUMPROD_Y"}

\* The arrays given to the array functions.
FnArrays == [Periods -> {-1, 0, 2}]

\* np.cumprod.
RECURSIVE _cumprod(_)
_cumprod(arr) ==
    IF arr = <<>> THEN <<>>
    ELSE LET front == _cumprod(SubSeq(arr, 1, Len(arr) - 1))
         IN  Append(front, (IF front = <<>> THEN 1 ELSE front[Len(front)]) * arr[Len(arr)])

RECURSIVE CumprodYLoop(_, _, _, _, _, _, _, _)
CumprodYLoop(arr, year_arr, i, product, has_last, last_year, last_year_value, result) ==
    IF i > Len(arr) THEN result
    ELSE LET cy == year_arr[i]
             changed == ~has_last \/ cy # last_year
             product2 == IF has_last /\ cy # last_year THEN product * last_year_value
                         ELSE product
         IN  CumprodYLoop(arr, year_arr, i + 1, product2, TRUE, cy,
                          IF changed THEN arr[i] ELSE last_year_value,
                          Append(result, product2))

\* _cumprod_y: when the year changes the product absorbs the value at the first
\* period of the year just completed.
_cumprod_y(arr, year_arr) == CumprodYLoop(arr, year_arr, 1, 1, FALSE, 0, 0, <<>>)

\* _count_nonzero.
_count_nonzero(arr) ==
    [t \in DOMAIN arr |-> Cardinality({i \in 1..t : arr[i] # 0})]

\* evaluate_formula of NAME(V1): the pre-pass of _process_array_functions
\* computes the function over the whole array and the formula is its placeholder.
ArrayFnAllPeriods(name, arr, year_arr) ==
    CASE name = "PREVSUM" -> _prevsum(arr)
      [] name = "CUMSUM" -> _cumsum(arr)
      [] name = "COUNT" -> _count_nonzero(arr)
      [] name = "CUMPROD" -> _cumprod(arr)
      [] name = "CUMPROD_Y" -> _cumprod_y(arr, year_arr)

\* _eval_simple_at_period of the reference V1, period from 0.
InnerAtPeriod(arr, period) == IF period < 0 THEN 0 ELSE At(arr, period + 1)

\* _eval_formula_at_period of NAME(V1), period from 0: PREVSUM, CUMSUM, CUMPROD
\* and COUNT are expanded over the periods up to this one; no branch matches
\* CUMPROD_Y, so the call stays in the expression, eval raises NameError and
\* _safe_eval gives 0.0.
ArrayFnAtPeriod(name, arr, period) ==
    CASE name = "PREVSUM" -> SumFun([j \in 0..(period - 1) |-> InnerAtPeriod(arr, j)])
      [] name = "CUMSUM" -> SumFun([j \in 0..period |-> InnerAtPeriod(arr, j)])
      [] name = "COUNT" -> Cardinality({j \in 0..period : InnerAtPeriod(arr, j) # 0})
      [] name = "CUMPROD" -> _cumprod([j \in 1..(period + 1) |-> InnerAtPeriod(arr, j - 1)])[period + 1]
      [] OTHER -> 0

InitArrayFn ==
    /\ EngineIdle
    /\ \E name \in ArrayFnNames, arr \in FnArrays, start \in TimelineStarts :
          fn = [op |-> "arrayfn", name |-> name, arr |-> arr,
                start_year |-> start[1], start_month |-> start[2],
                by_period |-> <<>>, all_periods |-> <<>>]

\* The formula evaluated at the next period, as for a member of a cluster.
EvalAtPeriod ==
    /\ fn.op = "arrayfn"
    /\ Len(fn.by_period) < NumPeriods
    /\ fn' = [fn EXCEPT !.by_period =
                 Append(@, ArrayFnAtPeriod(fn.name, fn.arr, Len(fn.by_period)))]
    /\ UNCHANGED engineVars

\* The formula evaluated over all periods, as for a node outside the clusters.
EvalAllPeriods ==
    /\ fn.op = "arrayfn"
    /\ fn.all_periods = <<>>
    /\ fn' = [fn EXCEPT !.all_periods =
                 ArrayFnAllPeriods(fn.name, fn.arr,
                     YearArr(build_timeline(fn.start_year, fn.start_month, NumPeriods)))]
    /\ UNCHANGED engineVars

NextArrayFn ==
    \/ EvalAtPeriod
    \/ EvalAllPeriods

SpecArrayFn == InitArrayFn /\ [][NextArrayFn]_vars

\* C25 (as claimed): for PREVSUM, CUMSUM, COUNT, CUMPROD and CUMPROD_Y applied to
\* an expression without cluster members, the values computed period by period
\* equal at every period those the array evaluator gives for the same formula.
C25_PeriodEqualsArray ==
    (fn.op = "arrayfn" /\ fn.all_periods # <<>>) =>
        \A t \in DOMAIN fn.by_period : fn.by_period[t] = fn.all_periods[t]

\* ------------------------------------------------------------------ legacy module references
\* The documents: the calculations R1..R3 and, after them, one module that is
\* not converted. Module 1 is converted: its output M1.1 is a legacy name that
\* _mRefMap aliases to one of the calculations. A formula or a module input
\* names at most one calculation and may name M1.1.
ModuleNode == Cardinality(FamilyIds) + 1

MRefNodes == [deps : {D \in SUBSET FamilyIds : Cardinality(D) <= 1}, legacy : BOOLEAN]

\* _rewrite_mrefs then _extract_deps: the legacy name has become its R<id>.
RewrittenDeps(calc, alias) == calc.deps \cup (IF calc.legacy THEN {alias} ELSE {})

\* The dependencies of the module node: the R<n> of its string inputs, and the
\* node M<n> of an M<n>.<k> input, which is not rewritten; M1 is no node of the
\* graph and "Filter deps to existing graph nodes" drops it.
ModuleDeps(mod, nodes) == (mod.deps \cup (IF mod.legacy THEN {0} ELSE {})) \cap nodes

\* The graph of _evaluate_all: the calculations in document order, then the module.
MRefGraph(cs, mod, alias) ==
    [n \in FamilyIds \cup {ModuleNode} |->
        IF n = ModuleNode THEN ModuleDeps(mod, FamilyIds \cup {ModuleNode})
        ELSE RewrittenDeps(cs[n], alias) \cap (FamilyIds \cup {ModuleNode})]

InitMRefs ==
    /\ EngineIdle
    /\ \E cs \in [FamilyIds -> MRefNodes], mod \in MRefNodes, alias \in FamilyIds :
          fn = [op |-> "mrefs", calcs |-> cs, module |-> mod, alias |-> alias,
                sorted_nodes |-> <<>>, node_idx |-> 0, written |-> <<>>, published |-> {}]

\* _evaluate_all up to the evaluation loop: no formula has a lag reference, so
\* there is no cluster.
ScheduleMRefs ==
    /\ fn.op = "mrefs"
    /\ fn.node_idx = 0
    /\ fn' = [fn EXCEPT
                 !.sorted_nodes = _topological_sort(MRefGraph(fn.calcs, fn.module, fn.alias)),
                 !.node_idx = 1]
    /\ UNCHANGED engineVars

\* One turn of the evaluation loop: the node is evaluated and written; the
\* calculation the legacy name is aliased to publishes it in the context.
EvalMRefNode ==
    /\ fn.op = "mrefs"
    /\ fn.node_idx >= 1
    /\ fn.node_idx <= Len(fn.sorted_nodes)
    /\ LET node_id == fn.sorted_nodes[fn.node_idx]
       IN  fn' = [fn EXCEPT
                    !.written = Append(@, [n |-> node_id, context |-> fn.published]),
                    !.published = @ \cup {<<"R", node_id>>}
                                    \cup (IF node_id = fn.alias THEN {<<"M", 1>>} ELSE {}),
                    !.node_idx = @ + 1]
    /\ UNCHANGED engineVars

NextMRefs ==
    \/ ScheduleMRefs
    \/ EvalMRefNode

SpecMRefs == InitMRefs /\ [][NextMRefs]_vars

\* Node n names the legacy M1.1.
NamesLegacy(n) == IF n = ModuleNode THEN fn.module.legacy ELSE fn.calcs[n].legacy

\* The dependencies the document states, the alias of a legacy name included.
StatedGraph ==
    [n \in FamilyIds \cup {ModuleNode} |->
        IF n = ModuleNode THEN RewrittenDeps(fn.module, fn.alias)
        ELSE RewrittenDeps(fn.calcs[n], fn.alias)]

\* C26 (as claimed, on the documents without a circular dependency): a node,
\* formula or module, that names a legacy M1.1 aliased to R<id> is evaluated
\* when R<id> was written and M1.1 published.
C26_LegacyRefScheduled ==
    (fn.op = "mrefs" /\ Remaining(StatedGraph) = {}) =>
        \A k \in DOMAIN fn.written :
            NamesLegacy(fn.written[k].n) =>
                /\ <<"R", fn.alias>> \in fn.written[k].context
                /\ <<"M", 1>> \in fn.written[k].context

\* ------------------------------------------------------------------ claims: facility limit
\* The recalculation months: operations start and the monthIndex of every
\* active schedule entry after it and inside the timeline.
RecalcMonths ==
    {OpsStart(fn.ops_flag)} \cup
    {fn.schedule[k].monthIndex : k \in {j \in DOMAIN fn.schedule :
        /\ fn.schedule[j].active
        /\ fn.schedule[j].monthIndex > OpsStart(fn.ops_flag)
        /\ fn.schedule[j].monthIndex < NumPeriods}}

\* The operating periods before i.
OperatingBefore(i) == {j \in 0..(i - 1) : fn.ops_flag[j + 1] = 1}

LastOperatingBefore(i) == CHOOSE j \in OperatingBefore(i) : \A k \in OperatingBefore(i) : k <= j

\* C21 (as claimed): facility_limit is 0 before operations start, the forward
\* sum at operations start and at every refinancing month during operations,
\* and at every other following period the value of the period before.
C21_FacilityLimitKept ==
    (fn.op = "dsrf" /\ fn.done /\ fn.dsrf_active # 0 /\ OpsStart(fn.ops_flag) >= 0) =>
        \A i \in 0..(NumPeriods - 1) :
            /\ i < OpsStart(fn.ops_flag) => fn.facility_limit[i + 1] = 0
            /\ (i \in RecalcMonths /\ fn.ops_flag[i + 1] = 1) =>
                  fn.facility_limit[i + 1] = FwdSum(fn.debt_service, i, fn.facility_months)
            /\ (i > OpsStart(fn.ops_flag) /\ i \notin RecalcMonths) =>
                  fn.facility_limit[i + 1] = fn.facility_limit[i]

\* C21 (amended): facility_limit is 0 at every period whose operations flag is
\* not 1; at an operating period it is the forward sum from that period when a
\* recalculation month has come since the operating period before, and the
\* value of the operating period before otherwise.
C21_FacilityLimit ==
    (fn.op = "dsrf" /\ fn.done /\ fn.dsrf_active # 0) =>
        \A i \in 0..(NumPeriods - 1) :
            IF fn.ops_flag[i + 1] # 1 THEN fn.facility_limit[i + 1] = 0
            ELSE IF \E m \in RecalcMonths :
                       m <= i /\ \A j \in OperatingBefore(i) : j < m
                 THEN fn.facility_limit[i + 1] = FwdSum(fn.debt_service, i, fn.facility_months)
                 ELSE fn.facility_limit[i + 1] = fn.facility_limit[LastOperatingBefore(i) + 1]

\* The limit was recalculated at a refinancing month after operations start.
C21_Witness ==
    /\ fn.op = "dsrf" /\ fn.done /\ fn.dsrf_active # 0
    /\ \E m \in RecalcMonths :
          /\ m > OpsStart(fn.ops_flag)
          /\ fn.ops_flag[m + 1] = 1
          /\ fn.facility_limit[m + 1] # fn.facility_limit[m]
          /\ fn.facility_limit[m] # 0

\* ------------------------------------------------------------------ claims: clusters
\* C22 (as claimed): after cluster detection the clusters are pairwise disjoint
\* and node_to_cluster agrees with cluster membership, whatever the order in
\* which the cycle sets were found.
C22_ClustersDisjoint ==
    sched # NoSched =>
        /\ \A a, b \in DOMAIN sched.clusters :
              a # b => sched.clusters[a] \cap sched.clusters[b] = {}
        /\ \A n \in DOMAIN sched.node_to_cluster : \A c \in DOMAIN sched.clusters :
              n \in sched.clusters[c] <=> sched.node_to_cluster[n] = c

\* The hard and upgraded soft dependencies of n: its dependencies in the graph
\* before a consumer's dependencies are expanded to whole clusters.
DirectDeps(n) ==
    UpgradeSoft(calcs, HardGraph(calcs), sched.node_to_cluster)[n]

\* C23 (as claimed): after run(), every node outside the clusters that depends,
\* hard or by an upgraded lag reference, on a member of a cluster was evaluated
\* after every member of that cluster had been written.
C23_ClusterBeforeConsumer ==
    Finished =>
        \A n \in Ids \ DOMAIN sched.node_to_cluster : \A c \in DOMAIN sched.clusters :
            (DirectDeps(n) \cap sched.clusters[c] # {}) =>
                \A m \in sched.clusters[c] : WrittenBefore(m, n)

\* The members of cluster c in the order of their evaluation within a period.
MemberOrder(c) == InternalOrder(sched, c)

\* Member n of cluster c refers to members of c only.
ClosedMember(n, c) ==
    /\ n \in sched.clusters[c]
    /\ calcs[n].hard \cup calcs[n].soft \subseteq sched.clusters[c]
    /\ calcs[n].refs = {}

\* C24 (as claimed, on the documents whose hard graph is acyclic): within a
\* cluster a member comes after every member it hard-depends on, so that after
\* run() its value at period t is made of the period-t values of the members it
\* hard-depends on and of the values at period t - 1 of the members it refers
\* to through a lag.
C24_InternalOrder ==
    HardAcyclic(calcs) =>
    /\ pc = "cluster" =>
          \A a, b \in DOMAIN MemberOrder(cur.cid) :
              MemberOrder(cur.cid)[b] \in HardGraph(calcs)[MemberOrder(cur.cid)[a]] => b < a
    /\ FirstPlainRun =>
          \A c \in DOMAIN sched.clusters : \A n \in Ids :
              ClosedMember(n, c) =>
                  \A t \in Periods :
                      results[RRef(n)][t] =
                          calcs[n].c
                          + SumFun([j \in calcs[n].hard |-> results[RRef(j)][t]])
                          + SumFun([j \in calcs[n].soft |->
                                      IF t > 1 THEN results[RRef(j)][t - 1] ELSE 0])

\* ------------------------------------------------------------------ claims: debt sizing
\* upper - lower <= tolerance, on the interval an iteration starts from.
ToleranceMet(in, lower, upper) == 10 * (upper - lower) <= in.tolerance * Scale

\* C27: with a non-negative initial upper bound U0 the search keeps
\* 0 <= lower <= upper <= U0 and best_debt = lower, an iteration never lowers
\* lower nor raises upper, and the sized_debt emitted is best_debt at every
\* period: 0 when no candidate was accepted or the debt flag is never 1.
C27_SearchInterval ==
    (fn.op = "debt" /\ fn.upper0 >= 0) =>
        /\ 0 <= fn.lower /\ fn.lower <= fn.upper /\ fn.upper <= fn.upper0
        /\ fn.best_debt = fn.lower
        /\ fn.sim # <<>> => fn.sim[1].lower <= fn.lower /\ fn.upper <= fn.sim[1].upper
        /\ fn.done =>
              /\ Len(fn.sized_debt) = fn.in.length
              /\ \A t \in 1..fn.in.length : fn.sized_debt[t] = fn.best_debt
              /\ (fn.accepts = 0 \/ debt_start(fn.in) < 0) =>
                     \A t \in 1..fn.in.length : fn.sized_debt[t] = 0

\* A search that accepted some candidates and rejected others has ended.
C27_Witness ==
    /\ fn.op = "debt" /\ fn.done /\ fn.upper0 > 0
    /\ fn.accepts > 0 /\ fn.accepts < fn.iter
    /\ fn.sized_debt[1] > 0 /\ fn.upper < fn.upper0

\* Every simulation starts from an interval wider than the tolerance, and the
\* search ends before the cap only on an interval within the tolerance.
CapAndTolerance ==
    fn.op = "debt" =>
        /\ fn.iter <= fn.in.max_iterations
        /\ fn.sim # <<>> => ~ToleranceMet(fn.in, fn.sim[1].lower, fn.sim[1].upper)
        /\ (fn.done /\ debt_start(fn.in) >= 0 /\ fn.iter < fn.in.max_iterations) =>
               ToleranceMet(fn.in, fn.lower, fn.upper)

\* C28: the search makes at most max_iterations simulations, also with a
\* tolerance of 0 or below, and ends before the cap exactly on an interval
\* within the tolerance; every step is one more simulation or the end of the
\* search, so that the search terminates.
C28_IterationCap ==
    /\ []CapAndTolerance
    /\ [][\/ fn'.iter = fn.iter + 1 /\ ~fn'.done
          \/ fn'.iter = fn.iter /\ ~fn.done /\ fn'.done]_vars

\* A search with a tolerance of 0 or below has ended at the cap, and so may
\* one with a positive tolerance end before it.
C28_Witness ==
    /\ fn.op = "debt" /\ fn.done /\ fn.in.tolerance <= 0
    /\ fn.iter = fn.in.max_iterations /\ fn.upper > fn.lower

\* The payments of the simulation an iteration made.
Payments == fn.sim[1].payments

\* The simulation ended with balance 0 after a payment at debt_end, and the
\* candidate was accepted exactly when no payment date before debt_end had
\* maxPrincipal < 0.9 x minPrincipal.
PaidAtDebtEnd ==
    /\ Payments # <<>>
    /\ Payments[Len(Payments)].i = debt_end(fn.in)
    /\ Payments[Len(Payments)].balance = 0
    /\ fn.sim[1].balance = 0
    /\ fn.sim[1].accepted <=>
          \A k \in 1..Len(Payments) :
              Payments[k].i < debt_end(fn.in) =>
                  ~(10 * Payments[k].max_princ < 9 * Payments[k].min_princ)

SelfLag(n) == calcs[n].hard = {} /\ calcs[n].soft = {n} /\ calcs[n].refs = {}

\* C30: a formula R<i> = SHIFT(R<i>, 1) + c is a cluster of its own, is not
\* left over by the topological sort, and run() evaluates it as R<i>[0] = c and
\* R<i>[t] = R<i>[t-1] + c.
C30_SelfLagRecurrence ==
    /\ sched # NoSched =>
          \A n \in Ids : SelfLag(n) =>
              /\ n \in DOMAIN sched.node_to_cluster
              /\ sched.clusters[sched.node_to_cluster[n]] = {n}
              /\ n \notin Remaining(sched.graph)
    /\ Finished =>
          \A n \in Ids : SelfLag(n) =>
              \A t \in Periods :
                  results[RRef(n)][t] =
                      calcs[n].c + (IF t > 1 THEN results[RRef(n)][t - 1] ELSE 0)

\* A run() of R1 = SHIFT(R1, 1) + 1 beside other formulas has returned
\* R1 = [1, 2, ..., P].
C30_Witness ==
    /\ Finished /\ SelfLag(1) /\ calcs[1].c = 1
    /\ Cardinality(Ids) > 1
    /\ results[RRef(1)] = [t \in Periods |-> t]
====
